---- MODULE Spec2Model ----
(***************************************************************************)
(* Model of the zupport operational agent (server.js router and            *)
(* createZupportApi): the WebSocket log-tail sessions, the file access     *)
(* gateway (POST /edit-file, GET /file-content, POST /execute), the GET    *)
(* /status aggregation and its helpers.                                    *)
(*                                                                         *)
(* Text is modelled as sequences of one-character strings so that          *)
(* toUpperCase, includes and startsWith are computed, not assumed.         *)
(***************************************************************************)
EXTENDS Integers, Sequences, FiniteSets, TLC

VARIABLES
    sess,       \* tail sessions: per connection, the handler's closure state
    logLines,   \* lines appended so far to the tailed log file
    serverUp,   \* the node process is alive
    errorLog,   \* sessions for which logger.error was called
    fsFiles,    \* files on disk written through POST /edit-file: path -> bytes
    editResp,   \* last POST /edit-file exchange (request and response)
    statusResp, \* the GET /status exchange in progress (inputs and response)
    queueResp,  \* the getQueueStatus call last made (directories and result)
    calc,       \* the call of a helper in progress (arguments and result)
    httpResp,   \* last exchange of the other HTTP handlers (request and response)
    writers,    \* POST /edit-file requests in flight, at their await points
    order,      \* the writers that were answered, in the order of their answers
    gen,        \* the log generator of POST /logs/generate: timer, callbacks, file
    stream      \* the log streamer of createZupportApi: socket, timer, tick

vars == <<sess, logLines, serverUp, errorLog, fsFiles, editResp, statusResp, queueResp,
          calc, httpResp, writers, order, gen, stream>>

tailVars == <<sess, logLines, serverUp, errorLog>>
fileVars == <<fsFiles, editResp>>
statusVars == <<statusResp, queueResp>>
extVars == <<calc, httpResp, writers, order>>
genVars == <<gen, stream>>

(***************************************************************************)
(* Bounds                                                                  *)
(***************************************************************************)
NumSessions == 2    \* WebSocket connections accepted in one run
MaxLines == 2       \* lines appended to the tailed file in one run

Sessions == 1..NumSessions

(***************************************************************************)
(* Text helpers                                                            *)
(***************************************************************************)
\* String.prototype.toUpperCase on one character of the modelled alphabet
UpperChar(c) ==
    CASE c = "a" -> "A"
      [] c = "b" -> "B"
      [] c = "c" -> "C"
      [] c = "d" -> "D"
      [] c = "e" -> "E"
      [] c = "l" -> "L"
      [] c = "o" -> "O"
      [] c = "r" -> "R"
      [] OTHER -> c

\* String.prototype.toUpperCase
toUpperCase(str) == [i \in DOMAIN str |-> UpperChar(str[i])]

\* String.prototype.startsWith
startsWith(str, prefix) ==
    /\ Len(prefix) <= Len(str)
    /\ SubSeq(str, 1, Len(prefix)) = prefix

\* String.prototype.includes
includes(str, tok) ==
    \E i \in 0..(Len(str) - Len(tok)) : SubSeq(str, i + 1, i + Len(tok)) = tok

(***************************************************************************)
(* Log tail streamer (server.js, wss.on('connection'))                     *)
(***************************************************************************)
INFO_a == <<"I", "N", "F", "O", " ", "a">>
ERROR_b == <<"E", "R", "R", "O", "R", " ", "b">>
error_b == <<"e", "r", "r", "o", "r", " ", "b">>
INFO_c == <<"I", "N", "F", "O", " ", "c">>

\* lines the environment may append to the tailed file
LineSet == {INFO_a, ERROR_b, error_b, INFO_c}

\* a query parameter: absent (searchParams.get gives null) or a string
NoParam == [present |-> FALSE, value |-> <<>>]
Param(str) == [present |-> TRUE, value |-> str]

\* values of the level query parameter
LevelParams == {NoParam, Param(<<"E", "R", "R", "O", "R">>), Param(<<"e", "r", "r", "o", "r">>)}

\* values of the log query parameter; "" stands for an absent or empty one
LogParams == {"", "app.log", "missing.log"}

\* log files present in LOG_DIR; app.log is the file whose lines are modelled
ExistingLogs == {"app.log"}

ALL == <<"A", "L", "L">>

\* params.get('level')?.toUpperCase()
UpperLevel(level) ==
    IF level.present THEN Param(toUpperCase(level.value)) ELSE NoParam

\* !logLevel : undefined and the empty string are falsy
NoLevel(logLevel) == ~logLevel.present \/ logLevel.value = <<>>

IdleSession ==
    [state |-> "Idle", logFile |-> "", logLevel |-> NoParam,
     watch |-> FALSE, start |-> 0, pos |-> 0, sent |-> <<>>]

\* a client opens a WebSocket; connections are numbered in arrival order and
\* the 'connection' event of this one is not yet handled
ClientConnect(s) ==
    /\ serverUp
    /\ sess[s].state = "Idle"
    /\ \A t \in Sessions : t < s => sess[t].state # "Idle"
    /\ sess' = [sess EXCEPT ![s] = [@ EXCEPT !.state = "Connecting"]]
    /\ UNCHANGED <<logLines, serverUp, errorLog, fileVars, statusVars, extVars, genVars>>

\* new tail(logPath): throws when the file cannot be opened
TailOpens(log) == log \in ExistingLogs

\* the 'connection' handler without the return after ws.close(): a request
\* that names no log file goes on to set up a tail
OnConnectionNoReturn(s, log, level) ==
    /\ serverUp
    /\ sess[s].state = "Connecting"
    /\ \A t \in Sessions : t < s => sess[t].state # "Connecting"
    /\ sess' = [sess EXCEPT ![s] = [@ EXCEPT !.state = "Watching",
                                             !.logFile = log,
                                             !.logLevel = UpperLevel(level),
                                             !.watch = TRUE,
                                             !.start = Len(logLines),
                                             !.pos = Len(logLines)]]
    /\ UNCHANGED <<logLines, serverUp, errorLog, fileVars, statusVars, extVars, genVars>>

\* the 'connection' handler whose catch block logs and leaves the socket open
OnConnectionNoClose(s, log, level) ==
    /\ serverUp
    /\ sess[s].state = "Connecting"
    /\ \A t \in Sessions : t < s => sess[t].state # "Connecting"
    /\ sess' = [sess EXCEPT ![s] =
                  [@ EXCEPT !.state = IF log = "" THEN "Closed" ELSE "Watching",
                            !.logFile = log,
                            !.logLevel = UpperLevel(level),
                            !.watch = log # "" /\ TailOpens(log),
                            !.start = Len(logLines),
                            !.pos = Len(logLines)]]
    /\ errorLog' = IF log # "" /\ ~TailOpens(log) THEN errorLog \cup {s} ELSE errorLog
    /\ UNCHANGED <<logLines, serverUp, fileVars, statusVars, extVars, genVars>>

\* the 'connection' handler, for a request with query parameters log, level
OnConnection(s, log, level) ==
    /\ serverUp
    /\ sess[s].state = "Connecting"
    /\ \A t \in Sessions : t < s => sess[t].state # "Connecting"
    /\ LET logFile == log
           logLevel == UpperLevel(level)
       IN IF logFile = ""
          THEN \* ws.close(); return
               /\ sess' = [sess EXCEPT ![s] = [@ EXCEPT !.state = "Closed",
                                                        !.logFile = logFile,
                                                        !.logLevel = logLevel]]
               /\ UNCHANGED errorLog
          ELSE IF TailOpens(logFile)
          THEN \* the tail starts at the end of the file; the 'line' and
               \* 'close' listeners are registered
               /\ sess' = [sess EXCEPT ![s] = [@ EXCEPT !.state = "Watching",
                                                        !.logFile = logFile,
                                                        !.logLevel = logLevel,
                                                        !.watch = TRUE,
                                                        !.start = Len(logLines),
                                                        !.pos = Len(logLines)]]
               /\ UNCHANGED errorLog
          ELSE \* catch: logger.error(...); ws.close()
               /\ sess' = [sess EXCEPT ![s] = [@ EXCEPT !.state = "Closed",
                                                        !.logFile = logFile,
                                                        !.logLevel = logLevel]]
               /\ errorLog' = errorLog \cup {s}
    /\ UNCHANGED <<logLines, serverUp, fileVars, statusVars, extVars, genVars>>

\* an external writer appends one line to the tailed file
AppendLine(line) ==
    /\ Len(logLines) < MaxLines
    /\ logLines' = Append(logLines, line)
    /\ UNCHANGED <<sess, serverUp, errorLog, fileVars, statusVars, extVars, genVars>>

\* a 'line' listener that sends whatever the level parameter
ForwardsAlways(logLevel, data) == TRUE

\* the condition under which the 'line' listener sends
Forwards(logLevel, data) == NoLevel(logLevel) \/ includes(data, logLevel.value)

\* the message the 'line' listener builds (the timestamp is left out)
LineMessage(logLevel, data) ==
    [message |-> data, level |-> IF NoLevel(logLevel) THEN ALL ELSE logLevel.value]

\* 'line' listeners fed by one tail shared by every session of the file: the
\* read position is advanced for all of them, the line goes to one
TailLineShared(s) ==
    /\ serverUp
    /\ sess[s].watch
    /\ sess[s].pos < Len(logLines)
    /\ LET data == logLines[sess[s].pos + 1]
           logLevel == sess[s].logLevel
       IN sess' = [t \in Sessions |->
                     IF t = s
                     THEN [sess[t] EXCEPT !.pos = @ + 1,
                                          !.sent = IF Forwards(logLevel, data)
                                                   THEN Append(@, LineMessage(logLevel, data))
                                                   ELSE @]
                     ELSE IF sess[t].watch /\ sess[t].pos < sess[s].pos + 1
                     THEN [sess[t] EXCEPT !.pos = sess[s].pos + 1]
                     ELSE sess[t]]
    /\ UNCHANGED <<logLines, serverUp, errorLog, fileVars, statusVars, extVars, genVars>>

\* tailProcess.on('line'): the tail emits the next unread line
TailLine(s) ==
    /\ serverUp
    /\ sess[s].watch
    /\ sess[s].pos < Len(logLines)
    /\ LET data == logLines[sess[s].pos + 1]
           logLevel == sess[s].logLevel
       IN sess' = [sess EXCEPT ![s] =
                     [@ EXCEPT !.pos = @ + 1,
                               !.sent = IF Forwards(logLevel, data)
                                        THEN Append(@, LineMessage(logLevel, data))
                                        ELSE @]]
    /\ UNCHANGED <<logLines, serverUp, errorLog, fileVars, statusVars, extVars, genVars>>

\* a closed connection: its tail object is released with the watch
ClosedSession(r) ==
    [r EXCEPT !.state = "Closed", !.watch = FALSE, !.start = 0, !.pos = 0]

\* ws.on('close') without the unwatch call
OnCloseKeepsWatch(s) ==
    /\ serverUp
    /\ sess[s].state = "Watching"
    /\ sess' = [sess EXCEPT ![s] = [@ EXCEPT !.state = "Closed"]]
    /\ UNCHANGED <<logLines, serverUp, errorLog, fileVars, statusVars, extVars, genVars>>

\* ws.on('close'): tailProcess.unwatch()
OnClose(s) ==
    /\ serverUp
    /\ sess[s].state = "Watching"
    /\ sess' = [sess EXCEPT ![s] = ClosedSession(@)]
    /\ UNCHANGED <<logLines, serverUp, errorLog, fileVars, statusVars, extVars, genVars>>

\* the tail emits 'error'; no 'error' listener is registered on tailProcess,
\* so the emit throws, nothing catches it and the process exits: every
\* connection and every watch goes with it
TailError(s) ==
    /\ serverUp
    /\ sess[s].watch
    /\ serverUp' = FALSE
    /\ sess' = [t \in Sessions |->
                  IF sess[t].state \in {"Connecting", "Watching"}
                  THEN ClosedSession(sess[t])
                  ELSE sess[t]]
    /\ UNCHANGED <<logLines, errorLog, fileVars, statusVars, extVars, genVars>>

TailInit ==
    /\ sess = [s \in Sessions |-> IdleSession]
    /\ logLines = <<>>
    /\ serverUp = TRUE
    /\ errorLog = {}

\* a line holding the word the messages use for 'no filter'
ALL_d == <<"A", "L", "L", " ", "d">>

\* values of the level query parameter that are absent, empty, or name a level
AnyLevelParams ==
    {NoParam, Param(<<>>), Param(<<"a", "l", "l">>), Param(<<"E", "R", "R", "O", "R">>)}

\* the tail sessions met by any value of the level parameter
LevelNext ==
    \/ \E s \in Sessions : ClientConnect(s)
    \/ \E s \in Sessions, level \in AnyLevelParams : OnConnection(s, "app.log", level)
    \/ \E line \in {INFO_a, ERROR_b, ALL_d} : AppendLine(line)
    \/ \E s \in Sessions : TailLine(s)
    \/ \E s \in Sessions : OnClose(s)
    \/ \E s \in Sessions : TailError(s)

TailNext ==
    \/ \E s \in Sessions : ClientConnect(s)
    \/ \E s \in Sessions, log \in LogParams, level \in LevelParams :
          OnConnection(s, log, level)
    \/ \E line \in LineSet : AppendLine(line)
    \/ \E s \in Sessions : TailLine(s)
    \/ \E s \in Sessions : OnClose(s)
    \/ \E s \in Sessions : TailError(s)


(***************************************************************************)
(* File access gateway: POST /edit-file in server.js (router) and in       *)
(* createZupportApi (src/index.js)                                         *)
(***************************************************************************)
\* position of the first "/" of str, 0 when there is none
FirstSlash(str) ==
    IF \E i \in 1..Len(str) : str[i] = "/"
    THEN CHOOSE i \in 1..Len(str) : str[i] = "/" /\ \A j \in 1..(i - 1) : str[j] # "/"
    ELSE 0

RECURSIVE SplitSlash(_)
\* str.split('/')
SplitSlash(str) ==
    IF FirstSlash(str) = 0
    THEN <<str>>
    ELSE <<SubSeq(str, 1, FirstSlash(str) - 1)>>
             \o SplitSlash(SubSeq(str, FirstSlash(str) + 1, Len(str)))

RECURSIVE JoinSlash(_)
\* segs.join('/')
JoinSlash(segs) ==
    IF Len(segs) = 0 THEN <<>>
    ELSE IF Len(segs) = 1 THEN segs[1]
    ELSE segs[1] \o <<"/">> \o JoinSlash(Tail(segs))

RECURSIVE NormalizeSegments(_, _, _)
\* path.normalize on the segments: "" and "." are dropped, ".." removes the
\* segment before it, is dropped at the root of an absolute path and is kept
\* at the front of a relative one
NormalizeSegments(segs, acc, isAbsolute) ==
    IF Len(segs) = 0 THEN acc
    ELSE LET seg == segs[1]
             rest == Tail(segs)
         IN IF seg = <<>> \/ seg = <<".">>
            THEN NormalizeSegments(rest, acc, isAbsolute)
            ELSE IF seg = <<".", ".">>
            THEN IF Len(acc) > 0 /\ acc[Len(acc)] # <<".", ".">>
                 THEN NormalizeSegments(rest, SubSeq(acc, 1, Len(acc) - 1), isAbsolute)
                 ELSE IF isAbsolute
                 THEN NormalizeSegments(rest, acc, isAbsolute)
                 ELSE NormalizeSegments(rest, Append(acc, seg), isAbsolute)
            ELSE NormalizeSegments(rest, Append(acc, seg), isAbsolute)

\* path.normalize (POSIX)
PathNormalize(str) ==
    IF Len(str) = 0 THEN <<".">>
    ELSE LET isAbsolute == str[1] = "/"
             trailing == str[Len(str)] = "/"
             body == JoinSlash(NormalizeSegments(SplitSlash(str), <<>>, isAbsolute))
             dotted == IF Len(body) = 0 /\ ~isAbsolute THEN <<".">> ELSE body
             slashed == IF Len(dotted) > 0 /\ trailing THEN dotted \o <<"/">> ELSE dotted
         IN IF isAbsolute THEN <<"/">> \o slashed ELSE slashed

\* path.join(a, b): the non-empty arguments joined by "/" and normalized
PathJoin(a, b) ==
    IF Len(a) = 0 /\ Len(b) = 0 THEN <<".">>
    ELSE IF Len(a) = 0 THEN PathNormalize(b)
    ELSE IF Len(b) = 0 THEN PathNormalize(a)
    ELSE PathNormalize(a \o <<"/">> \o b)

\* EDITABLE_DIR / editableDir: the configured editable root
EDITABLE_DIR == <<"/", "a", "/", "b">>

\* directories that exist on disk
ExistingDirs == {<<"/">>, <<"/", "a">>, <<"/", "a", "/", "b">>, <<"/", "a", "/", "b", "c">>}

\* path.dirname of a normalized absolute path
Dirname(full) ==
    LET segs == NormalizeSegments(SplitSlash(full), <<>>, TRUE)
    IN <<"/">> \o JoinSlash(SubSeq(segs, 1, Len(segs) - 1))

\* fs.writeFile succeeds when the parent directory exists and the target is
\* not itself a directory
WriteSucceeds(full) ==
    /\ full \notin ExistingDirs
    /\ full[Len(full)] # "/"
    /\ Dirname(full) \in ExistingDirs

\* values of the filePath field
Path_x == <<"x", ".", "t", "x", "t">>
Path_outside == <<".", ".", "/", "o", "u", "t", "s", "i", "d", "e", ".", "t", "x", "t">>
Path_sibling == <<".", ".", "/", "b", "c", "/", "x">>
Path_inside == <<"s", "/", ".", ".", "/", "x", ".", "t", "x", "t">>
Path_nodir == <<"n", "/", "x">>
Path_dot == <<".">>

FilePaths ==
    {NoParam, Param(<<>>), Param(Path_x), Param(Path_outside), Param(Path_sibling),
     Param(Path_inside), Param(Path_nodir), Param(Path_dot)}

\* values of the content field
Contents == {NoParam, Param(<<>>), Param(<<"x">>), Param(<<"y">>)}

\* the file the claim's example aims at, outside the editable root
OutsideFile == <<"/", "a", "/", "o", "u", "t", "s", "i", "d", "e", ".", "t", "x", "t">>

NoEdit ==
    [impl |-> "none", filePath |-> NoParam, content |-> NoParam,
     fullPath |-> <<>>, status |-> 0, wrote |-> FALSE]

\* UTF-16 code units that are not ASCII: the two halves of U+1F600 and the
\* replacement character U+FFFD
HighSurrogate == "uD83D"
LowSurrogate == "uDE00"
Replacement == "uFFFD"

\* the bytes written for a string, in the default encoding 'utf8': a surrogate
\* pair gives four bytes, a surrogate on its own the bytes of U+FFFD
RECURSIVE Utf8Encode(_)
Utf8Encode(str) ==
    IF str = <<>> THEN <<>>
    ELSE IF str[1] = HighSurrogate /\ Len(str) >= 2 /\ str[2] = LowSurrogate
    THEN <<"F0", "9F", "98", "80">> \o Utf8Encode(SubSeq(str, 3, Len(str)))
    ELSE IF str[1] \in {HighSurrogate, LowSurrogate, Replacement}
    THEN <<"EF", "BF", "BD">> \o Utf8Encode(Tail(str))
    ELSE <<str[1]>> \o Utf8Encode(Tail(str))

\* the bytes read back one character for each byte
Utf8DecodeBytewise(bytes) == bytes

\* the string read from bytes with the encoding 'utf8'
RECURSIVE Utf8Decode(_)
Utf8Decode(bytes) ==
    IF bytes = <<>> THEN <<>>
    ELSE IF Len(bytes) >= 4 /\ SubSeq(bytes, 1, 4) = <<"F0", "9F", "98", "80">>
    THEN <<HighSurrogate, LowSurrogate>> \o Utf8Decode(SubSeq(bytes, 5, Len(bytes)))
    ELSE IF Len(bytes) >= 3 /\ SubSeq(bytes, 1, 3) = <<"EF", "BF", "BD">>
    THEN <<Replacement>> \o Utf8Decode(SubSeq(bytes, 4, Len(bytes)))
    ELSE <<bytes[1]>> \o Utf8Decode(Tail(bytes))

\* fs.writeFile(fullPath, content) on the modelled disk
WriteFile(files, full, content) ==
    [p \in (DOMAIN files) \cup {full} |->
        IF p = full THEN Utf8Encode(content) ELSE files[p]]

\* router.post('/edit-file') of server.js: no containment check
RouterEditFile(filePath, content) ==
    /\ UNCHANGED <<tailVars, statusVars, extVars, genVars>>
    /\ IF ~filePath.present \/ filePath.value = <<>> \/ ~content.present
       THEN /\ editResp' = [NoEdit EXCEPT !.impl = "router", !.filePath = filePath,
                                          !.content = content, !.status = 400]
            /\ UNCHANGED fsFiles
       ELSE LET fullPath == PathJoin(EDITABLE_DIR, filePath.value)
            IN IF WriteSucceeds(fullPath)
               THEN /\ fsFiles' = WriteFile(fsFiles, fullPath, content.value)
                    /\ editResp' = [impl |-> "router", filePath |-> filePath,
                                    content |-> content, fullPath |-> fullPath,
                                    status |-> 200, wrote |-> TRUE]
               ELSE /\ UNCHANGED fsFiles
                    /\ editResp' = [impl |-> "router", filePath |-> filePath,
                                    content |-> content, fullPath |-> fullPath,
                                    status |-> 500, wrote |-> FALSE]

\* app.post('/edit-file') of createZupportApi: fullPath.startsWith(editableDir)
ApiEditFile(filePath, content) ==
    /\ UNCHANGED <<tailVars, statusVars, extVars, genVars>>
    /\ IF ~filePath.present \/ filePath.value = <<>> \/ ~content.present
       THEN /\ editResp' = [NoEdit EXCEPT !.impl = "api", !.filePath = filePath,
                                          !.content = content, !.status = 400]
            /\ UNCHANGED fsFiles
       ELSE LET fullPath == PathJoin(EDITABLE_DIR, filePath.value)
            IN IF ~startsWith(fullPath, EDITABLE_DIR)
               THEN /\ UNCHANGED fsFiles
                    /\ editResp' = [impl |-> "api", filePath |-> filePath,
                                    content |-> content, fullPath |-> fullPath,
                                    status |-> 403, wrote |-> FALSE]
               ELSE IF WriteSucceeds(fullPath)
               THEN /\ fsFiles' = WriteFile(fsFiles, fullPath, content.value)
                    /\ editResp' = [impl |-> "api", filePath |-> filePath,
                                    content |-> content, fullPath |-> fullPath,
                                    status |-> 200, wrote |-> TRUE]
               ELSE /\ UNCHANGED fsFiles
                    /\ editResp' = [impl |-> "api", filePath |-> filePath,
                                    content |-> content, fullPath |-> fullPath,
                                    status |-> 500, wrote |-> FALSE]

\* another process creates the file outside the editable root
ExternalCreate ==
    /\ OutsideFile \notin DOMAIN fsFiles
    /\ fsFiles' = WriteFile(fsFiles, OutsideFile, <<"o", "l", "d">>)
    /\ UNCHANGED <<editResp, tailVars, statusVars, extVars, genVars>>

FileInit ==
    /\ fsFiles = <<>>
    /\ editResp = NoEdit

FileNext ==
    \/ ExternalCreate
    \/ \E filePath \in FilePaths, content \in Contents : RouterEditFile(filePath, content)
    \/ \E filePath \in FilePaths, content \in Contents : ApiEditFile(filePath, content)

(***************************************************************************)
(* Status aggregator: the collectors and GET /status of server.js          *)
(***************************************************************************)
MaxXml == 5     \* .xml files in one monitored directory
MaxPdf == 5     \* .pdf files in one monitored directory

\* queueConfigs: one entry for each distinct triple of file thresholds
queueConfigs ==
    <<[path |-> "/zpdata/agents/zippi/outgoing", files |-> <<100, 500, 1000>>],
      [path |-> "/zpdata/agents/emailToFaxAgent/errors", files |-> <<2, 5, 10>>],
      [path |-> "/zpdata/queues/S3/errors", files |-> <<0, 0, 0>>]>>

QueueIdx == DOMAIN queueConfigs

\* what readdir finds in a monitored directory: it rejects, or lists files
Unreadable == [readable |-> FALSE, xml |-> 0, pdf |-> 0]
Listing(x, p) == [readable |-> TRUE, xml |-> x, pdf |-> p]
DirStates == {Unreadable} \cup {Listing(x, p) : x \in 0..MaxXml, p \in 0..MaxPdf}

\* the health tier with the two upper tiers exchanged
QueueTierSwapped(total, files) ==
    IF total = 0 THEN "healthy"
    ELSE IF total >= files[3] THEN "sick"
    ELSE IF total >= files[2] THEN "dead"
    ELSE IF total >= files[1] THEN "tired"
    ELSE "healthy"

\* the health tier with the comparisons taken in ascending order
QueueTierAscending(total, files) ==
    IF total = 0 THEN "healthy"
    ELSE IF total >= files[1] THEN "tired"
    ELSE IF total >= files[2] THEN "sick"
    ELSE IF total >= files[3] THEN "dead"
    ELSE "healthy"

\* the health tier of a directory holding total matched files
QueueTier(total, files) ==
    IF total = 0 THEN "healthy"
    ELSE IF total >= files[3] THEN "dead"
    ELSE IF total >= files[2] THEN "sick"
    ELSE IF total >= files[1] THEN "tired"
    ELSE "healthy"

\* one iteration of the loop of getQueueStatus: readdir(...).catch(() => [])
\* turns an unreadable directory into an empty listing
QueueRecord(queue, dir) ==
    LET xmlFiles == IF dir.readable THEN dir.xml ELSE 0
        pdfFiles == IF dir.readable THEN dir.pdf ELSE 0
        total == xmlFiles + pdfFiles
    IN [path |-> queue.path,
        exists |-> TRUE,
        counts |-> [xml |-> xmlFiles, pdf |-> pdfFiles, total |-> total],
        thresholds |-> queue.files,
        status |-> QueueTier(total, queue.files)]

\* the totals keeping the counts of one queue only
SumFieldFirst(records, f) ==
    IF Len(records) = 0 THEN 0
    ELSE records[1].counts[f]

\* totals.xml += counts.xml and totals.pdf += counts.pdf over the records
RECURSIVE SumField(_, _)
SumField(records, f) ==
    IF Len(records) = 0 THEN 0
    ELSE records[1].counts[f] + SumField(Tail(records), f)

\* getQueueStatus over the directories dirs (one state for each queue)
getQueueStatus(dirs) ==
    LET queues == [i \in QueueIdx |-> QueueRecord(queueConfigs[i], dirs[i])]
    IN [queues |-> queues,
        totals |-> [xml |-> SumField(queues, "xml"), pdf |-> SumField(queues, "pdf")]]

NoQueueCall == [pc |-> "idle", dirs |-> <<>>, result |-> <<>>]

\* a call of getQueueStatus on some state of the monitored directories
QueueScan(dirs) ==
    /\ queueResp.pc = "idle"
    /\ queueResp' = [pc |-> "done", dirs |-> dirs, result |-> getQueueStatus(dirs)]
    /\ UNCHANGED <<statusResp, tailVars, fileVars, extVars, genVars>>

\* the caller has taken the result
QueueReturn ==
    /\ queueResp.pc = "done"
    /\ queueResp' = NoQueueCall
    /\ UNCHANGED <<statusResp, tailVars, fileVars, extVars, genVars>>

\* getMemoryDetails: /proc/meminfo read, or the default
getMemoryDetails(ok) ==
    IF ok THEN [memFree |-> "MemFree", swapFree |-> "SwapFree"]
    ELSE [memFree |-> "0", swapFree |-> "0"]

\* getDiskDetails: the rows of df -h, or none
getDiskDetails(ok) == IF ok THEN <<"/dev/root", "EFS (/zpdata)">> ELSE <<>>

\* getOSDetails: /etc/os-release read, or the default
getOSDetails(ok) ==
    IF ok THEN [name |-> "Amazon Linux", version |-> "2023", status |-> "current"]
    ELSE [name |-> "Unknown", version |-> "Unknown", status |-> "unknown"]

\* line 641 reads totalMemory, which nothing defines
TotalMemoryDefined == FALSE

InactiveService(name) ==
    [isNull |-> FALSE, name |-> name, status |-> "inactive", version |-> "unknown"]

\* one element of services.map(...): systemctl is-active exits non-zero for a
\* service that is not active, and every throw lands in the catch
ServiceRecord(name, svc) ==
    IF svc.active /\ svc.cmdsOk /\ TotalMemoryDefined
    THEN [isNull |-> FALSE, name |-> name, status |-> "active", version |-> "reported"]
    ELSE InactiveService(name)

NullService == [isNull |-> TRUE, name |-> "", status |-> "", version |-> ""]

\* the Sprkz probe: curl and JSON.parse
SprkzOutcomes == {"success", "notSuccess", "unparsable", "refused"}

sprkzStatus(outcome) ==
    IF outcome = "success"
    THEN [isNull |-> FALSE, name |-> "Sprkz", status |-> "active", version |-> "reported"]
    ELSE IF outcome = "notSuccess"
    THEN NullService
    ELSE [isNull |-> FALSE, name |-> "Sprkz", status |-> "inactive", version |-> "null"]

ServiceNames == <<"tomcat9", "nodered">>

\* getServiceStatus: a failing ps for the top processes lands in the outer
\* catch, which returns no service either
getServiceStatus(svcs, sprkz, psOk) ==
    IF psOk
    THEN [services |-> [i \in DOMAIN ServiceNames |-> ServiceRecord(ServiceNames[i], svcs[i])]
                          \o <<sprkzStatus(sprkz)>>,
          topProcesses |-> <<"top1", "top2">>]
    ELSE [services |-> <<>>, topProcesses |-> <<>>]

\* the fragment: what the HTML shows of the snapshot
StatusFragment(status, queueStatus) ==
    [totalFiles |-> queueStatus.totals.xml + queueStatus.totals.pdf,
     queues |-> [i \in DOMAIN status.queues |->
                   [status |-> status.queues[i].status,
                    total |-> status.queues[i].counts.total,
                    xml |-> status.queues[i].counts.xml,
                    pdf |-> status.queues[i].counts.pdf]],
     services |-> [i \in DOMAIN status.services |->
                     [name |-> status.services[i].name,
                      active |-> status.services[i].status = "active"]]]

Error500 == [code |-> 500, kind |-> "json", body |-> <<>>, error |-> "Failed to get system status"]

\* router.get('/status')
StatusHandler(in) ==
    IF ~in.diskSpaceOk
    THEN \* await checkDiskSpace('/') rejects: the handler's catch answers
         Error500
    ELSE LET memDetails == getMemoryDetails(in.meminfoOk)
             diskDetails == getDiskDetails(in.dfOk)
             queueStatus == getQueueStatus(in.dirs)
             osDetails == getOSDetails(in.osReleaseOk)
             serviceStatus == getServiceStatus(in.svcs, in.sprkz, in.psOk)
             status == [os |-> osDetails,
                        memory |-> memDetails,
                        disk |-> [total |-> "size", free |-> "free",
                                  filesystems |-> diskDetails],
                        queues |-> queueStatus.queues,
                        totalQueueFiles |-> "undefined",
                        services |-> serviceStatus.services,
                        topProcesses |-> serviceStatus.topProcesses]
         IN IF in.hx
            THEN IF \E i \in DOMAIN status.services : status.services[i].isNull
                 THEN \* svc.name of null throws in the template
                      Error500
                 ELSE [code |-> 200, kind |-> "html",
                       body |-> StatusFragment(status, queueStatus), error |-> ""]
            ELSE [code |-> 200, kind |-> "json", body |-> status, error |-> ""]

\* the states of the monitored directories a /status request may meet
StatusDirs ==
    {[i \in QueueIdx |-> Unreadable],
     [i \in QueueIdx |-> Listing(0, 0)],
     [i \in QueueIdx |-> Listing(1, 2)]}

SvcStates == {[active |-> TRUE, cmdsOk |-> TRUE], [active |-> TRUE, cmdsOk |-> FALSE],
              [active |-> FALSE, cmdsOk |-> TRUE]}

StatusInputs ==
    [hx : BOOLEAN, diskSpaceOk : BOOLEAN, meminfoOk : BOOLEAN, dfOk : BOOLEAN,
     osReleaseOk : BOOLEAN, psOk : BOOLEAN, dirs : StatusDirs,
     svcs : [DOMAIN ServiceNames -> SvcStates], sprkz : SprkzOutcomes]

NoStatus == [pc |-> "idle", in |-> <<>>, out |-> <<>>]

\* a GET /status request is handled
StatusRequest(in) ==
    /\ statusResp.pc = "idle"
    /\ statusResp' = [pc |-> "done", in |-> in, out |-> StatusHandler(in)]
    /\ UNCHANGED <<queueResp, tailVars, fileVars, extVars, genVars>>

\* the response has been delivered
StatusDelivered ==
    /\ statusResp.pc = "done"
    /\ statusResp' = NoStatus
    /\ UNCHANGED <<queueResp, tailVars, fileVars, extVars, genVars>>

StatusInit ==
    /\ statusResp = NoStatus
    /\ queueResp = NoQueueCall

StatusNext ==
    \/ /\ statusResp.pc = "idle"
       /\ \E in \in StatusInputs : StatusRequest(in)
    \/ StatusDelivered

QueueNext ==
    \/ /\ queueResp.pc = "idle"
       /\ \E dirs \in [QueueIdx -> DirStates] : QueueScan(dirs)
    \/ QueueReturn

(***************************************************************************)
(* Helpers of the status aggregator, each called on its own: the health    *)
(* tier, the oldest matched file of a directory, formatAge                 *)
(***************************************************************************)
MaxThreshold == 3   \* largest threshold of the generated threshold triples
MaxCount == 4       \* largest small file count classified
MaxEntries == 3     \* entries readdir lists in a monitored directory
MaxTime == 2        \* distinct change times of the listed files
MaxDays == 2        \* whole days in the ages formatAge is given

NoCalc == [fn |-> "none", in |-> <<>>, out |-> <<>>]

\* ascending threshold triples: the generated ones and those of queueConfigs
ThresholdTriples ==
    {tr \in (0..MaxThreshold) \X (0..MaxThreshold) \X (0..MaxThreshold) :
        tr[1] <= tr[2] /\ tr[2] <= tr[3]}
        \cup {queueConfigs[i].files : i \in QueueIdx}

\* file counts: the small ones and those next to a threshold of queueConfigs
FileCounts ==
    (0..MaxCount)
        \cup {queueConfigs[i].files[k] + d : i \in QueueIdx, k \in 1..3, d \in 0..1}
        \cup {queueConfigs[i].files[k] - 1 : i \in {j \in QueueIdx : queueConfigs[j].files[1] > 0},
                                            k \in 1..3}

\* the status expression of getQueueStatus applied to one count
QueueTierCall(files, total) ==
    /\ calc.fn = "none"
    /\ calc' = [fn |-> "QueueTier", in |-> [files |-> files, total |-> total],
                out |-> QueueTier(total, files)]
    /\ UNCHANGED <<httpResp, writers, order, tailVars, fileVars, statusVars, genVars>>

\* String.prototype.endsWith
endsWith(str, suffix) ==
    /\ Len(suffix) <= Len(str)
    /\ SubSeq(str, Len(str) - Len(suffix) + 1, Len(str)) = suffix

Ext_xml == <<".", "x", "m", "l">>
Ext_pdf == <<".", "p", "d", "f">>

\* names of the files a monitored directory may hold
QueueFileNames ==
    {<<"a">> \o Ext_xml, <<"b">> \o Ext_pdf, <<"c">> \o Ext_xml,
     <<"d", ".", "t", "x", "t">>}

\* what readdir lists, in readdir's order, with what fsp.stat gives for each
\* name: it rejects (the file is gone since the listing), or it gives a ctime
DirListings ==
    {l \in UNION {[1..n -> [name : QueueFileNames, ctime : 1..MaxTime, statOk : BOOLEAN]] :
                    n \in 0..MaxEntries} :
        \A i \in DOMAIN l, j \in DOMAIN l : i # j => l[i].name # l[j].name}

NullFile == [isNull |-> TRUE, name |-> <<>>, created |-> 0, type |-> ""]

\* the loop over files with the comparison turned round
RECURSIVE OldestLoopNewest(_, _)
OldestLoopNewest(files, oldestFile) ==
    IF files = <<>> THEN oldestFile
    ELSE LET file == Head(files)
         IN IF ~file.statOk
            THEN OldestLoopNewest(Tail(files), oldestFile)
            ELSE IF oldestFile.isNull \/ file.ctime > oldestFile.created
            THEN OldestLoopNewest(Tail(files),
                     [isNull |-> FALSE, name |-> file.name, created |-> file.ctime,
                      type |-> IF endsWith(file.name, Ext_xml) THEN "XML" ELSE "PDF"])
            ELSE OldestLoopNewest(Tail(files), oldestFile)

\* for (const file of files): a file whose stat rejects is skipped; oldestTime
\* is null or a Date, and a Date is never falsy
RECURSIVE OldestLoop(_, _)
OldestLoop(files, oldestFile) ==
    IF files = <<>> THEN oldestFile
    ELSE LET file == Head(files)
         IN IF ~file.statOk
            THEN OldestLoop(Tail(files), oldestFile)
            ELSE IF oldestFile.isNull \/ file.ctime < oldestFile.created
            THEN OldestLoop(Tail(files),
                     [isNull |-> FALSE, name |-> file.name, created |-> file.ctime,
                      type |-> IF endsWith(file.name, Ext_xml) THEN "XML" ELSE "PDF"])
            ELSE OldestLoop(Tail(files), oldestFile)

\* the oldestFile of one monitored directory, from its listing allFiles
oldestFile(allFiles) ==
    LET xmlFiles == SelectSeq(allFiles, LAMBDA f : endsWith(f.name, Ext_xml))
        pdfFiles == SelectSeq(allFiles, LAMBDA f : endsWith(f.name, Ext_pdf))
        files == xmlFiles \o pdfFiles
    IN OldestLoop(files, NullFile)

\* one iteration of the loop of getQueueStatus, for its oldestFile
OldestFileCall(allFiles) ==
    /\ calc.fn = "none"
    /\ calc' = [fn |-> "oldestFile", in |-> allFiles, out |-> oldestFile(allFiles)]
    /\ UNCHANGED <<httpResp, writers, order, tailVars, fileVars, statusVars, genVars>>

MsPerMinute == 60000
MinutesPerHour == 60
HoursPerDay == 24
MsPerHour == MsPerMinute * MinutesPerHour
MsPerDay == MsPerHour * HoursPerDay

\* formatAge with the hours tested before the days
formatAgeHoursFirst(now, date) ==
    LET diff == now - date
        minutes == diff \div MsPerMinute
        hours == minutes \div MinutesPerHour
        days == hours \div HoursPerDay
    IN IF hours > 0 THEN [n |-> hours, unit |-> "h"]
       ELSE IF days > 0 THEN [n |-> days, unit |-> "d"]
       ELSE [n |-> minutes, unit |-> "m"]

\* formatAge(date), with the clock value now it reads; `${n}${unit}` is kept
\* as the pair of its number and its unit letter
formatAge(now, date) ==
    LET diff == now - date
        minutes == diff \div MsPerMinute
        hours == minutes \div MinutesPerHour
        days == hours \div HoursPerDay
    IN IF days > 0 THEN [n |-> days, unit |-> "d"]
       ELSE IF hours > 0 THEN [n |-> hours, unit |-> "h"]
       ELSE [n |-> minutes, unit |-> "m"]

\* ages in milliseconds on both sides of every unit boundary
Ages ==
    {d * MsPerDay + h * MsPerHour + m * MsPerMinute + ms :
        d \in 0..MaxDays, h \in {0, 1, HoursPerDay - 1},
        m \in {0, 1, MinutesPerHour - 1}, ms \in {0, MsPerMinute - 1}}

\* timestamps of the oldest file (milliseconds since the epoch)
FileDates == {0, 1000}

\* formatAge called on a file timestamp that is not later than now
FormatAgeCall(date, age) ==
    /\ calc.fn = "none"
    /\ calc' = [fn |-> "formatAge", in |-> [now |-> date + age, date |-> date],
                out |-> formatAge(date + age, date)]
    /\ UNCHANGED <<httpResp, writers, order, tailVars, fileVars, statusVars, genVars>>

\* the caller has taken the result
CalcReturn ==
    /\ calc.fn # "none"
    /\ calc' = NoCalc
    /\ UNCHANGED <<httpResp, writers, order, tailVars, fileVars, statusVars, genVars>>

CalcInit == calc = NoCalc

CalcNext ==
    \/ /\ calc.fn = "none"
       /\ \E files \in ThresholdTriples, total \in FileCounts : QueueTierCall(files, total)
    \/ /\ calc.fn = "none"
       /\ \E allFiles \in DirListings : OldestFileCall(allFiles)
    \/ /\ calc.fn = "none"
       /\ \E date \in FileDates, age \in Ages : FormatAgeCall(date, age)
    \/ CalcReturn

(***************************************************************************)
(* GET /server-stats                                                       *)
(***************************************************************************)
NoHttp == [route |-> "none", in |-> <<>>, out |-> <<>>]

\* router.get('/server-stats'): the catch answers JSON whatever the mode
ServerStatsHandler(in) ==
    IF ~in.diskSpaceOk
    THEN [code |-> 500, kind |-> "json", error |-> "Failed to get server stats"]
    ELSE IF in.hx
    THEN [code |-> 200, kind |-> "html", error |-> ""]
    ELSE [code |-> 200, kind |-> "json", error |-> ""]

ServerStatsInputs == [hx : BOOLEAN, diskSpaceOk : BOOLEAN]

\* a GET /server-stats request is handled
ServerStatsRequest(in) ==
    /\ httpResp' = [route |-> "server-stats", in |-> in, out |-> ServerStatsHandler(in)]
    /\ UNCHANGED <<calc, writers, order, tailVars, fileVars, statusVars, genVars>>

FragmentNext ==
    \/ StatusNext
    \/ \E in \in ServerStatsInputs : ServerStatsRequest(in)

(***************************************************************************)
(* The gateway of server.js, one request after the other: POST /edit-file, *)
(* GET /file-content and POST /execute                                     *)
(***************************************************************************)
\* values of the filePath field and of the file query parameter
GatewayPaths ==
    {NoParam, Param(<<>>), Param(Path_x), Param(Path_inside), Param(Path_nodir)}

\* values of the content field: absent, empty, ASCII, U+1F600, half of it
GatewayContents ==
    {NoParam, Param(<<>>), Param(<<"x">>), Param(<<HighSurrogate, LowSurrogate>>),
     Param(<<HighSurrogate>>)}

\* values of the command field
Commands == {NoParam, Param(<<>>), Param(<<"l", "s">>)}

\* router.get('/file-content')
RouterFileContent(file) ==
    /\ UNCHANGED <<calc, writers, order, tailVars, fileVars, statusVars, genVars>>
    /\ IF ~file.present \/ file.value = <<>>
       THEN httpResp' = [route |-> "file-content", in |-> file,
                         out |-> [code |-> 400, content |-> <<>>, read |-> FALSE]]
       ELSE LET filePath == PathJoin(EDITABLE_DIR, file.value)
            IN IF filePath \in DOMAIN fsFiles
               THEN httpResp' = [route |-> "file-content", in |-> file,
                                 out |-> [code |-> 200,
                                          content |-> Utf8Decode(fsFiles[filePath]),
                                          read |-> TRUE]]
               ELSE httpResp' = [route |-> "file-content", in |-> file,
                                 out |-> [code |-> 500, content |-> <<>>, read |-> TRUE]]

\* POST /execute running the command before it looks at it
RouterExecuteUnchecked(command, ok) ==
    /\ UNCHANGED <<calc, writers, order, tailVars, fileVars, statusVars, genVars>>
    /\ httpResp' = [route |-> "execute", in |-> command,
                    out |-> [code |-> IF ok THEN 200 ELSE 500, executed |-> TRUE]]

\* router.post('/execute'): exec(command, callback), which reports an error
\* or the output of the command
RouterExecute(command, ok) ==
    /\ UNCHANGED <<calc, writers, order, tailVars, fileVars, statusVars, genVars>>
    /\ IF ~command.present \/ command.value = <<>>
       THEN httpResp' = [route |-> "execute", in |-> command,
                         out |-> [code |-> 400, executed |-> FALSE]]
       ELSE httpResp' = [route |-> "execute", in |-> command,
                         out |-> [code |-> IF ok THEN 200 ELSE 500, executed |-> TRUE]]

GatewayNext ==
    \/ \E filePath \in GatewayPaths, content \in GatewayContents :
          RouterEditFile(filePath, content)
    \/ \E file \in GatewayPaths : RouterFileContent(file)
    \/ \E command \in Commands, ok \in BOOLEAN : RouterExecute(command, ok)

(***************************************************************************)
(* POST /edit-file requests in flight together: fsp.writeFile opens the    *)
(* file (truncating it), writes the bytes through its own descriptor and   *)
(* closes it, and the event loop runs other requests between these steps   *)
(***************************************************************************)
NumWriters == 2     \* POST /edit-file requests in flight together

Writers == 1..NumWriters

IdleWriter == [pc |-> "idle", content |-> <<>>, fullPath |-> <<>>, status |-> 0]

\* contents the concurrent requests carry, of different lengths
WriterContents == {<<"x">>, <<"y", "y">>}

\* the request of w arrives with a filePath and a content: the handler runs up
\* to its await, fsp.writeFile has its open pending
EditArrives(w, filePath, content) ==
    /\ writers[w].pc = "idle"
    /\ writers' = [writers EXCEPT ![w] =
                      [pc |-> "open", content |-> content,
                       fullPath |-> PathJoin(EDITABLE_DIR, filePath), status |-> 0]]
    /\ UNCHANGED <<calc, httpResp, order, tailVars, fileVars, statusVars, genVars>>

\* open(fullPath, 'w') of w completes: the file is created or truncated
WriteOpen(w) ==
    /\ writers[w].pc = "open"
    /\ fsFiles' = WriteFile(fsFiles, writers[w].fullPath, <<>>)
    /\ writers' = [writers EXCEPT ![w].pc = "write"]
    /\ UNCHANGED <<calc, httpResp, order, editResp, tailVars, statusVars, genVars>>

\* the write of w completes: its bytes go to the start of the file, through a
\* descriptor whose position is its own; what the file holds beyond them stays
WriteData(w) ==
    /\ writers[w].pc = "write"
    /\ LET old == fsFiles[writers[w].fullPath]
           bytes == Utf8Encode(writers[w].content)
       IN fsFiles' = [fsFiles EXCEPT ![writers[w].fullPath] =
                         bytes \o SubSeq(old, Len(bytes) + 1, Len(old))]
    /\ writers' = [writers EXCEPT ![w].pc = "close"]
    /\ UNCHANGED <<calc, httpResp, order, editResp, tailVars, statusVars, genVars>>

\* the close of w completes and the handler answers 200
WriteClose(w) ==
    /\ writers[w].pc = "close"
    /\ writers' = [writers EXCEPT ![w].pc = "done", ![w].status = 200]
    /\ order' = Append(order, w)
    /\ UNCHANGED <<calc, httpResp, tailVars, fileVars, statusVars, genVars>>

WritersNext ==
    \/ \E w \in Writers, content \in WriterContents : EditArrives(w, Path_x, content)
    \/ \E w \in Writers : WriteOpen(w)
    \/ \E w \in Writers : WriteData(w)
    \/ \E w \in Writers : WriteClose(w)
    \/ RouterFileContent(Param(Path_x))

(***************************************************************************)
(* The server built by createZupportApi: GET /logs, GET /health,           *)
(* POST /execute and GET /editable-files                                   *)
(***************************************************************************)
TextHtml == <<"t", "e", "x", "t", "/", "h", "t", "m", "l">>
ApplicationJson == <<"a", "p", "p", "l", "i", "c", "a", "t", "i", "o", "n", "/", "j", "s", "o", "n">>
AnyType == <<"*", "/", "*">>

\* values of the Accept header: absent, or one of three media ranges
AcceptHeaders == {NoParam, Param(TextHtml), Param(ApplicationJson), Param(AnyType)}

\* shouldRespondWithHtml(req): req.get('Accept') is undefined without the header
shouldRespondWithHtml(accept) ==
    \/ ~accept.present
    \/ accept.value = <<>>
    \/ includes(accept.value, TextHtml)

\* the index of the last "." of a name, 0 when it has none
RECURSIVE LastDot(_)
LastDot(name) ==
    IF name = <<>> THEN 0
    ELSE IF name[Len(name)] = "." THEN Len(name)
    ELSE LastDot(SubSeq(name, 1, Len(name) - 1))

\* path.extname of a file name without directory: from the last "." on, and
\* empty when there is no "." or when the only one opens the name
extname(name) ==
    IF LastDot(name) <= 1 THEN <<>> ELSE SubSeq(name, LastDot(name), Len(name))

Ext_log == <<".", "l", "o", "g">>
Name_test_log == <<"t", "e", "s", "t", ".", "l", "o", "g">>
Name_notes_txt == <<"n", "o", "t", "e", "s", ".", "t", "x", "t">>
Name_dot_log == <<".", "l", "o", "g">>

DirNames == {Name_test_log, Name_notes_txt, Name_dot_log}

\* what readdir gives for a directory: it rejects, or it lists names
DirReads ==
    {[ok |-> FALSE, files |-> <<>>]}
        \cup {[ok |-> TRUE, files |-> l] :
                l \in {m \in UNION {[1..n -> DirNames] : n \in 0..Cardinality(DirNames)} :
                         \A i \in DOMAIN m, j \in DOMAIN m : i # j => m[i] # m[j]}}

\* app.get('/logs')
ApiLogs(accept, dir) ==
    IF ~dir.ok
    THEN [code |-> 500, kind |-> IF shouldRespondWithHtml(accept) THEN "html" ELSE "json",
          body |-> [error |-> "Error retrieving logs"]]
    ELSE LET logFiles == SelectSeq(dir.files, LAMBDA file : extname(file) = Ext_log)
         IN IF shouldRespondWithHtml(accept)
            THEN [code |-> 200, kind |-> "html", body |-> [logList |-> logFiles]]
            ELSE [code |-> 200, kind |-> "json", body |-> [logs |-> logFiles]]

\* app.get('/editable-files')
ApiEditableFiles(accept, dir) ==
    IF ~dir.ok
    THEN [code |-> 500, kind |-> IF shouldRespondWithHtml(accept) THEN "html" ELSE "json",
          body |-> [error |-> "Error retrieving editable files"]]
    ELSE IF shouldRespondWithHtml(accept)
    THEN [code |-> 200, kind |-> "html", body |-> [fileList |-> dir.files]]
    ELSE [code |-> 200, kind |-> "json", body |-> [files |-> dir.files]]

\* app.get('/health')
ApiHealth(accept) ==
    LET health == [uptime |-> "process.uptime()", message |-> "OK",
                   cpuUsage |-> "process.cpuUsage()"]
    IN IF shouldRespondWithHtml(accept)
       THEN [code |-> 200, kind |-> "html", body |-> [pre |-> health]]
       ELSE [code |-> 200, kind |-> "json", body |-> health]

\* what exec reports to its callback: an error, or the output of the command
ExecResults ==
    {[error |-> TRUE, stdout |-> <<>>, stderr |-> <<>>],
     [error |-> FALSE, stdout |-> <<"o", "u", "t">>, stderr |-> <<>>],
     [error |-> FALSE, stdout |-> <<"o", "u", "t">>, stderr |-> <<"e", "r", "r">>]}

\* app.post('/execute')
ApiExecute(accept, command, result) ==
    IF ~command.present \/ command.value = <<>>
    THEN [code |-> 400, kind |-> "json", body |-> [error |-> "Missing command in request body"]]
    ELSE IF result.error
    THEN [code |-> 500, kind |-> IF shouldRespondWithHtml(accept) THEN "html" ELSE "json",
          body |-> [error |-> "error.message"]]
    ELSE IF shouldRespondWithHtml(accept)
    THEN [code |-> 200, kind |-> "html", body |-> [pre |-> result.stdout]]
    ELSE [code |-> 200, kind |-> "json",
          body |-> [stdout |-> result.stdout, stderr |-> result.stderr]]

\* a GET /logs request is handled
ApiLogsRequest(accept, dir) ==
    /\ httpResp' = [route |-> "api/logs", in |-> [accept |-> accept, dir |-> dir],
                    out |-> ApiLogs(accept, dir)]
    /\ UNCHANGED <<calc, writers, order, tailVars, fileVars, statusVars, genVars>>

\* a GET /editable-files request is handled
ApiEditableFilesRequest(accept, dir) ==
    /\ httpResp' = [route |-> "api/editable-files", in |-> [accept |-> accept, dir |-> dir],
                    out |-> ApiEditableFiles(accept, dir)]
    /\ UNCHANGED <<calc, writers, order, tailVars, fileVars, statusVars, genVars>>

\* a GET /health request is handled
ApiHealthRequest(accept) ==
    /\ httpResp' = [route |-> "api/health", in |-> [accept |-> accept],
                    out |-> ApiHealth(accept)]
    /\ UNCHANGED <<calc, writers, order, tailVars, fileVars, statusVars, genVars>>

\* a POST /execute request is handled
ApiExecuteRequest(accept, command, result) ==
    /\ httpResp' = [route |-> "api/execute",
                    in |-> [accept |-> accept, command |-> command, result |-> result],
                    out |-> ApiExecute(accept, command, result)]
    /\ UNCHANGED <<calc, writers, order, tailVars, fileVars, statusVars, genVars>>

ApiNext ==
    \/ \E accept \in AcceptHeaders, dir \in DirReads : ApiLogsRequest(accept, dir)
    \/ \E accept \in AcceptHeaders, dir \in DirReads : ApiEditableFilesRequest(accept, dir)
    \/ \E accept \in AcceptHeaders : ApiHealthRequest(accept)
    \/ \E accept \in AcceptHeaders, command \in Commands, result \in ExecResults :
          ApiExecuteRequest(accept, command, result)

(***************************************************************************)
(* GET /version and the version module                                     *)
(***************************************************************************)
\* the versions package.json may carry
Versions == {<<"1", ".", "0", ".", "0">>, <<"1", ".", "0", ".", "1">>, <<"1", ".", "1", ".", "0">>}

\* module.exports = '<version>'
StringExport(v) == [shape |-> "string", version |-> v]

\* module.exports = { version: '<version>' }
ObjectExport(v) == [shape |-> "object", version |-> v]

\* scripts/generateVersion.js: the module written from package.json
generateVersion(packageVersion) == StringExport(packageVersion)

\* the module server.js finds at ./version: one in the generated format or
\* one exporting an object, of any version
VersionModules == {StringExport(v) : v \in Versions} \cup {ObjectExport(v) : v \in Versions}

Undefined == <<"u", "n", "d", "e", "f", "i", "n", "e", "d">>

\* const { version } = require('./version'): a string has no version property
RequireVersion(module) ==
    IF module.shape = "object" THEN module.version ELSE Undefined

Hostnames == {<<"d", "v", "1">>, <<"s", "b", "1">>, <<"z", "p", "1">>, <<"h", "o", "s", "t">>}

\* the classification of the host by the prefix of its name
Environment(hostname) ==
    IF startsWith(hostname, <<"d", "v">>) THEN "Development"
    ELSE IF startsWith(hostname, <<"s", "b">>) THEN "Sandbox"
    ELSE IF startsWith(hostname, <<"z", "p">>) THEN "Production"
    ELSE "Other"

\* router.get('/version'): the fragment prints v${version}; res.json leaves
\* an undefined version out of the body
VersionHandler(in) ==
    LET version == RequireVersion(in.module)
    IN IF in.hx
       THEN [code |-> 200, kind |-> "html", version |-> version, hasVersion |-> TRUE,
             server |-> in.hostname, environment |-> Environment(in.hostname)]
       ELSE [code |-> 200, kind |-> "json", version |-> version,
             hasVersion |-> version # Undefined,
             server |-> in.hostname, environment |-> Environment(in.hostname)]

\* packageVersion is the version generateVersion was run with
VersionInputs ==
    [hx : BOOLEAN, hostname : Hostnames, packageVersion : Versions, module : VersionModules]

\* a GET /version request is handled
VersionRequest(in) ==
    /\ httpResp' = [route |-> "version", in |-> in, out |-> VersionHandler(in)]
    /\ UNCHANGED <<calc, writers, order, tailVars, fileVars, statusVars, genVars>>

VersionNext == \E in \in VersionInputs : VersionRequest(in)

(***************************************************************************)
(* POST /logs/generate: the log generator timer and its callbacks          *)
(***************************************************************************)
MaxTimers == 2      \* timers setInterval creates in one run
MaxPending == 2     \* timer callbacks waiting at one await at one time
MaxAppends == 3     \* lines appended to not-catalina.out in one run

\* logGenerator is 0 for null and the number of the timer otherwise
NoGenerator ==
    [logGenerator |-> 0, timers |-> {}, created |-> 0, nextPending |-> 0,
     appendPending |-> 0, appended |-> 0, last |-> [action |-> "none", status |-> "none"]]

\* values of the action field: start, stop, and anything else
GenerateActions == {"start", "stop", "other"}

\* the handler starting a timer whether or not one is active
GenerateRequestAlwaysStarts(action) ==
    /\ action = "start" => gen.created < MaxTimers
    /\ UNCHANGED <<stream, tailVars, fileVars, statusVars, extVars>>
    /\ IF action = "start"
       THEN gen' = [gen EXCEPT !.logGenerator = gen.created + 1,
                               !.timers = gen.timers \cup {gen.created + 1},
                               !.created = gen.created + 1,
                               !.last = [action |-> action, status |-> "started"]]
       ELSE IF action = "stop" /\ gen.logGenerator # 0
       THEN gen' = [gen EXCEPT !.logGenerator = 0,
                               !.timers = gen.timers \ {gen.logGenerator},
                               !.last = [action |-> action, status |-> "stopped"]]
       ELSE gen' = [gen EXCEPT !.last = [action |-> action, status |-> "no change"]]

\* router.post('/logs/generate')
GenerateRequest(action) ==
    /\ (action = "start" /\ gen.logGenerator = 0) => gen.created < MaxTimers
    /\ UNCHANGED <<stream, tailVars, fileVars, statusVars, extVars>>
    /\ IF action = "start" /\ gen.logGenerator = 0
       THEN gen' = [gen EXCEPT !.logGenerator = gen.created + 1,
                               !.timers = gen.timers \cup {gen.created + 1},
                               !.created = gen.created + 1,
                               !.last = [action |-> action, status |-> "started"]]
       ELSE IF action = "stop" /\ gen.logGenerator # 0
       THEN gen' = [gen EXCEPT !.logGenerator = 0,
                               !.timers = gen.timers \ {gen.logGenerator},
                               !.last = [action |-> action, status |-> "stopped"]]
       ELSE gen' = [gen EXCEPT !.last = [action |-> action, status |-> "no change"]]

\* an active timer fires: its callback runs up to await generator.next()
GeneratorTick ==
    /\ gen.timers # {}
    /\ gen.nextPending < MaxPending
    /\ gen' = [gen EXCEPT !.nextPending = gen.nextPending + 1]
    /\ UNCHANGED <<stream, tailVars, fileVars, statusVars, extVars>>

\* generator.next() resolves for a callback, which calls fsp.appendFile
GeneratorNextResolves ==
    /\ gen.nextPending > 0
    /\ gen.appendPending < MaxPending
    /\ gen' = [gen EXCEPT !.nextPending = gen.nextPending - 1,
                          !.appendPending = gen.appendPending + 1]
    /\ UNCHANGED <<stream, tailVars, fileVars, statusVars, extVars>>

\* fsp.appendFile of a callback completes: one more line in not-catalina.out
GeneratorAppends ==
    /\ gen.appendPending > 0
    /\ gen.appended < MaxAppends
    /\ gen' = [gen EXCEPT !.appendPending = gen.appendPending - 1,
                          !.appended = gen.appended + 1]
    /\ UNCHANGED <<stream, tailVars, fileVars, statusVars, extVars>>

GeneratorNext ==
    \/ \E action \in GenerateActions : GenerateRequest(action)
    \/ GeneratorTick
    \/ GeneratorNextResolves
    \/ GeneratorAppends

(***************************************************************************)
(* createZupportApi: the log streamer of a WebSocket connection            *)
(***************************************************************************)
MaxStreamLines == 2   \* lines appended to the streamed log file in one run
MaxSent == 3          \* messages delivered to one socket in one run

\* no connection yet; file is the number of lines of the one .log file of
\* the directory, whose line k is told apart from the others by its number
NoStream ==
    [ws |-> "none", timer |-> FALSE, tick |-> "idle", file |-> 0, sent |-> <<>>,
     closedSend |-> FALSE, unhandled |-> FALSE]

\* JSON.stringify({ timestamp, file, message: lastLine }); lastLine 0 is undefined
StreamLineMessage(lastLine) == [kind |-> "line", message |-> lastLine]

\* JSON.stringify({ error: 'Error reading logs', details })
StreamErrorMessage == [kind |-> "error", message |-> 0]

\* ws.send(message) and what follows it in the callback: on an open socket the
\* message is delivered; on a closed one the call either throws, and the send
\* of the catch block throws out of the callback, or is dropped
StreamSend(message, throws) ==
    IF stream.ws = "open"
    THEN [stream EXCEPT !.tick = "idle", !.sent = Append(stream.sent, message)]
    ELSE [stream EXCEPT !.tick = "idle", !.closedSend = TRUE,
                        !.unhandled = stream.unhandled \/ throws]

\* wss.on('connection') of createZupportApi
StreamConnect ==
    /\ stream.ws = "none"
    /\ stream' = [stream EXCEPT !.ws = "open", !.timer = TRUE]
    /\ UNCHANGED <<gen, tailVars, fileVars, statusVars, extVars>>

\* a line is appended to the log file by its writer
StreamAppend ==
    /\ stream.file < MaxStreamLines
    /\ stream' = [stream EXCEPT !.file = stream.file + 1]
    /\ UNCHANGED <<gen, tailVars, fileVars, statusVars, extVars>>

\* the interval fires: the callback runs up to await fs.readdir
StreamTick ==
    /\ stream.timer
    /\ stream.tick = "idle"
    /\ Len(stream.sent) < MaxSent
    /\ stream' = [stream EXCEPT !.tick = "readdir"]
    /\ UNCHANGED <<gen, tailVars, fileVars, statusVars, extVars>>

\* fs.readdir settles: the callback goes on to await fs.readFile, or to catch
StreamReaddir(ok, throws) ==
    /\ stream.tick = "readdir"
    /\ stream' = IF ok THEN [stream EXCEPT !.tick = "readFile"]
                 ELSE StreamSend(StreamErrorMessage, throws)
    /\ UNCHANGED <<gen, tailVars, fileVars, statusVars, extVars>>

\* fs.readFile settles: the last line of the file is sent, or catch runs
StreamReadFile(ok, throws) ==
    /\ stream.tick = "readFile"
    /\ stream' = IF ok THEN StreamSend(StreamLineMessage(stream.file), throws)
                 ELSE StreamSend(StreamErrorMessage, throws)
    /\ UNCHANGED <<gen, tailVars, fileVars, statusVars, extVars>>

\* ws.on('close') of createZupportApi
StreamClose ==
    /\ stream.ws = "open"
    /\ stream' = [stream EXCEPT !.ws = "closed", !.timer = FALSE]
    /\ UNCHANGED <<gen, tailVars, fileVars, statusVars, extVars>>

StreamNext ==
    \/ StreamConnect
    \/ StreamAppend
    \/ StreamTick
    \/ \E ok \in BOOLEAN, throws \in BOOLEAN : StreamReaddir(ok, throws)
    \/ \E ok \in BOOLEAN, throws \in BOOLEAN : StreamReadFile(ok, throws)
    \/ StreamClose

\* the state of the parts above before any request
ExtInit ==
    /\ CalcInit
    /\ httpResp = NoHttp
    /\ writers = [w \in Writers |-> IdleWriter]
    /\ order = <<>>
    /\ gen = NoGenerator
    /\ stream = NoStream

Init == TailInit /\ FileInit /\ StatusInit /\ ExtInit

\* the tail sessions alone
SpecTail == Init /\ [][TailNext]_vars

\* the /edit-file requests alone
SpecFile == Init /\ [][FileNext]_vars

\* the GET /status requests alone
SpecStatus == Init /\ [][StatusNext]_vars

\* the getQueueStatus calls alone
SpecQueue == Init /\ [][QueueNext]_vars

\* the GET /status and GET /server-stats requests
SpecFragment == Init /\ [][FragmentNext]_vars

\* the requests to the gateway of server.js, one after the other
SpecGateway == Init /\ [][GatewayNext]_vars

\* POST /edit-file requests in flight together, and reads of the file
SpecWriters == Init /\ [][WritersNext]_vars

\* the requests to the server built by createZupportApi
SpecApi == Init /\ [][ApiNext]_vars

\* the POST /logs/generate requests and the timer callbacks
SpecGenerator == Init /\ [][GeneratorNext]_vars

\* one WebSocket connection of createZupportApi and its log streamer
SpecStreamer == Init /\ [][StreamNext]_vars

\* the GET /version requests
SpecVersion == Init /\ [][VersionNext]_vars

\* the tail sessions under every kind of level parameter
SpecLevel == Init /\ [][LevelNext]_vars

\* the helper calls alone
SpecCalc == Init /\ [][CalcNext]_vars

(***************************************************************************)
(* Claims about the file access gateway                                    *)
(***************************************************************************)
\* the resolved path lies in the editable root: it is the root or is below it
ContainedInRoot(full) ==
    \/ full = EDITABLE_DIR
    \/ startsWith(full, EDITABLE_DIR \o <<"/">>)

\* C1: a POST /edit-file carrying filePath and content whose resolved path is
\* not contained in the editable root is answered 403 and writes no file, in
\* both implementations, whether or not the target exists.
C1_EscapeDenied ==
    (editResp.status # 0 /\ editResp.status # 400 /\ ~ContainedInRoot(editResp.fullPath))
        => (editResp.status = 403 /\ ~editResp.wrote)

(***************************************************************************)
(* Claims about the status aggregator                                      *)
(***************************************************************************)
\* the collectors that failed for a request
FailedCollectors(in) ==
    {c \in {"diskSpace", "memory", "filesystems", "queues", "os", "services", "top"} :
        \/ c = "diskSpace" /\ ~in.diskSpaceOk
        \/ c = "memory" /\ ~in.meminfoOk
        \/ c = "filesystems" /\ ~in.dfOk
        \/ c = "queues" /\ \A i \in QueueIdx : ~in.dirs[i].readable
        \/ c = "os" /\ ~in.osReleaseOk
        \/ c = "services" /\ \E i \in DOMAIN in.svcs : in.svcs[i].active /\ ~in.svcs[i].cmdsOk
        \/ c = "top" /\ ~in.psOk}

\* the same request with every introspection command succeeding
WithoutFailure(in) ==
    [in EXCEPT !.diskSpaceOk = TRUE, !.meminfoOk = TRUE, !.dfOk = TRUE,
               !.osReleaseOk = TRUE, !.psOk = TRUE]

\* the snapshot of a JSON response, one field for each collector
SnapshotFields(body) ==
    [diskSpace |-> <<body.disk.total, body.disk.free>>,
     memory |-> body.memory,
     filesystems |-> body.disk.filesystems,
     queues |-> body.queues,
     os |-> body.os,
     services |-> body.services,
     top |-> body.topProcesses]

\* C9: when exactly one collector fails on a request that is answered 200
\* without the failure, GET /status still answers 200 (never 500) and, in
\* the JSON body, every field of the other collectors is what it is without
\* the failure.
C9_PartialFailureStill200 ==
    (/\ statusResp.pc = "done"
     /\ Cardinality(FailedCollectors(statusResp.in)) = 1
     /\ StatusHandler(WithoutFailure(statusResp.in)).code = 200) =>
        /\ statusResp.out.code = 200
        /\ statusResp.out.kind = "json" =>
              \A c \in DOMAIN SnapshotFields(statusResp.out.body) :
                  c \notin FailedCollectors(statusResp.in) =>
                      SnapshotFields(statusResp.out.body)[c] =
                          SnapshotFields(StatusHandler(WithoutFailure(statusResp.in)).body)[c]

\* C10: for a readable monitored directory with n matched files and file
\* thresholds t1, t2, t3 the tier is healthy when n = 0, else dead when
\* n >= t3, else sick when n >= t2, else tired when n >= t1, else healthy.
C10_QueueTierPolicy ==
    queueResp.pc = "done" =>
        \A i \in QueueIdx :
            queueResp.dirs[i].readable =>
                LET n == queueResp.dirs[i].xml + queueResp.dirs[i].pdf
                    t == queueConfigs[i].files
                    tier == queueResp.result.queues[i].status
                IN /\ tier = "dead" <=> (n # 0 /\ n >= t[3])
                   /\ tier = "sick" <=> (n # 0 /\ n < t[3] /\ n >= t[2])
                   /\ tier = "tired" <=> (n # 0 /\ n < t[3] /\ n < t[2] /\ n >= t[1])
                   /\ tier = "healthy" <=> (n = 0 \/ (n < t[3] /\ n < t[2] /\ n < t[1]))

\* one scan classifies a non-empty directory healthy, one sick and one dead
C10_Witness ==
    /\ queueResp.pc = "done"
    /\ queueResp.result.queues[1].status = "healthy"
    /\ queueResp.result.queues[1].counts.total > 0
    /\ queueResp.result.queues[2].status = "sick"
    /\ queueResp.result.queues[3].status = "dead"

(***************************************************************************)
(* Claims about the log tail streamer                                      *)
(***************************************************************************)
\* the lines a session's tail has read so far: appended after the watch was
\* opened, up to its own read position
Consumed(s) == SubSeq(logLines, sess[s].start + 1, sess[s].pos)

\* the session's filter token occurs in the line as it is written
PassesFilter(s, line) ==
    \/ ~sess[s].logLevel.present
    \/ \E i \in 0..(Len(line) - Len(sess[s].logLevel.value)) :
          \A k \in 1..Len(sess[s].logLevel.value) :
              line[i + k] = sess[s].logLevel.value[k]

\* the texts of the messages sent to a session's client, in order
SentTexts(s) == [k \in DOMAIN sess[s].sent |-> sess[s].sent[k].message]

\* C2: a session whose connection has closed holds no file watch, so once
\* every connection is closed no watch is active; a watch exists only for a
\* session that is Watching.
C2_WatchReleasedOnClose ==
    /\ \A s \in Sessions : sess[s].state = "Closed" => ~sess[s].watch
    /\ \A s \in Sessions : sess[s].watch => sess[s].state = "Watching"
    /\ (\A s \in Sessions : sess[s].state = "Closed")
          => Cardinality({s \in Sessions : sess[s].watch}) = 0

\* every session watched the file, received a line and was closed by its client
C2_Witness ==
    /\ serverUp
    /\ \A s \in Sessions : sess[s].state = "Closed" /\ sess[s].sent # <<>>

ContainsIgnoreCase(line, tok) == includes(toUpperCase(line), toUpperCase(tok))

\* C4: with a level filter set, a line read by the tail is forwarded if and
\* only if it contains the filter token compared case-insensitively.
C4_FilterIgnoresCase ==
    \A s \in Sessions :
        (sess[s].state = "Watching" /\ ~NoLevel(sess[s].logLevel)) =>
            \A i \in (sess[s].start + 1)..sess[s].pos :
                (\E k \in DOMAIN sess[s].sent : sess[s].sent[k].message = logLines[i])
                    <=> ContainsIgnoreCase(logLines[i], sess[s].logLevel.value)

\* C5: a connection handled with no log parameter, or with a log file that
\* cannot be opened, is Closed, was never sent a message and holds no watch.
C5_BadRequestClosedSilently ==
    \A s \in Sessions :
        (sess[s].state \notin {"Idle", "Connecting"} /\ sess[s].logFile \notin ExistingLogs)
            => /\ sess[s].state = "Closed"
               /\ sess[s].sent = <<>>
               /\ ~sess[s].watch

\* one connection was refused for a missing parameter and another for a
\* missing file while lines were being appended
C5_Witness ==
    /\ \E s \in Sessions : sess[s].state = "Closed" /\ sess[s].logFile = "missing.log"
                             /\ s \in errorLog
    /\ Len(logLines) > 0
    /\ serverUp

\* C6: sessions move Idle -> Connecting -> Watching -> Closed only; Watching
\* is entered only with the file opened and the watch held; a handled request
\* with no parameter or an unopenable file goes to Closed; Closed is terminal;
\* messages are sent only while Watching.
C6_SessionStateMachine ==
    /\ [](\A s \in Sessions :
            /\ sess[s].state = "Watching" => sess[s].watch /\ TailOpens(sess[s].logFile)
            /\ sess[s].state \in {"Idle", "Connecting"} => sess[s].sent = <<>>)
    /\ [][\A s \in Sessions :
            LET a == sess[s].state
                b == sess'[s].state
            IN /\ a # b => <<a, b>> \in {<<"Idle", "Connecting">>,
                                         <<"Connecting", "Watching">>,
                                         <<"Connecting", "Closed">>,
                                         <<"Watching", "Closed">>}
               /\ (a = "Connecting" /\ b = "Watching") => TailOpens(sess'[s].logFile)
               /\ (a = "Connecting" /\ b # a /\ ~TailOpens(sess'[s].logFile)) => b = "Closed"
               /\ a = "Closed" => sess'[s] = sess[s]
               /\ sess'[s].sent # sess[s].sent => (a = "Watching" /\ b = "Watching")]_vars

\* a session that went through Connecting, Watching (with a message) and Closed
C6_Witness ==
    /\ \E s \in Sessions : sess[s].state = "Closed" /\ sess[s].sent # <<>>
    /\ \E s \in Sessions : sess[s].state = "Closed" /\ sess[s].logFile = ""
    /\ serverUp

\* C7: when the watch of a Watching session raises a read error, that session
\* alone goes to Closed with the error logged, every other session is left
\* as it was and the server stays up.
C7_TailErrorClosesOneSession ==
    [][\A s \in Sessions :
          (sess[s].state = "Watching" /\ TailError(s)) =>
              /\ sess'[s].state = "Closed"
              /\ s \in errorLog'
              /\ serverUp'
              /\ \A t \in Sessions \ {s} : sess'[t] = sess[t]]_vars

\* C8: sessions share no mutable state: while the server runs, a step that
\* changes one session (its connect, a line, its close) changes no other,
\* and what a Watching session was sent is fixed by its own filter and the
\* lines between its own start and its own read position.
C8_SessionsIndependent ==
    /\ [](\A s \in Sessions :
            sess[s].state = "Watching" =>
                Len(sess[s].sent) =
                    Cardinality({i \in (sess[s].start + 1)..sess[s].pos :
                                    PassesFilter(s, logLines[i])}))
    /\ [][serverUp' =>
            \A s, t \in Sessions :
                (s # t /\ sess'[t] # sess[t]) => sess'[s] = sess[s]]_vars

\* two sessions watch the same file with different filters and different
\* start offsets, and each has been sent its own lines
C8_Witness ==
    \E s, t \in Sessions :
        /\ s # t
        /\ sess[s].state = "Watching" /\ sess[t].state = "Watching"
        /\ sess[s].logLevel # sess[t].logLevel
        /\ sess[s].start # sess[t].start
        /\ sess[s].sent # <<>> /\ sess[t].sent # <<>>
        /\ sess[s].sent # sess[t].sent

(***************************************************************************)
(* Claims about the helpers of the status aggregator                       *)
(***************************************************************************)
\* the order healthy < tired < sick < dead
Severity(tier) ==
    CASE tier = "healthy" -> 0
      [] tier = "tired" -> 1
      [] tier = "sick" -> 2
      [] tier = "dead" -> 3

\* C11: for an ascending threshold triple (those of queueConfigs included) and
\* counts n <= m, the tier of n is not more severe than the tier of m.
C11_TierMonotonic ==
    calc.fn = "QueueTier" =>
        \A m \in FileCounts :
            calc.in.total <= m =>
                Severity(calc.out) <= Severity(QueueTier(m, calc.in.files))

\* a count classified sick under the thresholds [2,5,10], below a dead count
C11_Witness ==
    /\ calc.fn = "QueueTier"
    /\ calc.in.files = <<2, 5, 10>>
    /\ calc.in.total = 5
    /\ calc.out = "sick"
    /\ QueueTier(10, calc.in.files) = "dead"

\* the matched files of a listing, and those whose stat succeeded
Matched(allFiles) ==
    {i \in DOMAIN allFiles :
        endsWith(allFiles[i].name, Ext_xml) \/ endsWith(allFiles[i].name, Ext_pdf)}

Statable(allFiles) == {i \in Matched(allFiles) : allFiles[i].statOk}

\* out is the entry of earliest change time among the entries idxs (null
\* exactly when there is none)
EarliestAmong(allFiles, idxs, out) ==
    /\ out.isNull <=> idxs = {}
    /\ ~out.isNull =>
          /\ \E i \in idxs : allFiles[i].name = out.name /\ allFiles[i].ctime = out.created
          /\ \A i \in idxs : out.created <= allFiles[i].ctime

\* C14 as stated: oldestFile is the matched file of earliest change time among
\* all matched files of the directory, and null exactly when none is matched.
C14_OldestOfAllMatched ==
    calc.fn = "oldestFile" => EarliestAmong(calc.in, Matched(calc.in), calc.out)

\* C14 amended: oldestFile is the file of earliest change time among the
\* matched files whose stat succeeded, in whatever order they are listed, and
\* null exactly when there is no such file.
C14_OldestOfStatable ==
    calc.fn = "oldestFile" => EarliestAmong(calc.in, Statable(calc.in), calc.out)

\* three entries, the oldest matched one listed last and a stat that rejected
C14_Witness ==
    /\ calc.fn = "oldestFile"
    /\ Len(calc.in) = 3
    /\ Cardinality(Statable(calc.in)) = 2
    /\ Matched(calc.in) # Statable(calc.in)
    /\ ~calc.out.isNull
    /\ calc.out.name = calc.in[3].name
    /\ \E i \in Statable(calc.in) : calc.in[i].ctime > calc.out.created

\* C15: for a timestamp not later than now, formatAge gives the age in whole
\* days when it is at least a day, else in whole hours when it is at least an
\* hour, else in whole minutes.
C15_LargestUnit ==
    calc.fn = "formatAge" =>
        LET age == calc.in.now - calc.in.date
        IN /\ age >= 0
           /\ calc.out =
                 IF age >= MsPerDay THEN [n |-> age \div MsPerDay, unit |-> "d"]
                 ELSE IF age >= MsPerHour THEN [n |-> age \div MsPerHour, unit |-> "h"]
                 ELSE [n |-> age \div MsPerMinute, unit |-> "m"]

\* an age of one day, 23 hours and 59 minutes is rendered 1d
C15_Witness ==
    /\ calc.fn = "formatAge"
    /\ calc.in.now - calc.in.date = MsPerDay + 23 * MsPerHour + 59 * MsPerMinute
    /\ calc.out = [n |-> 1, unit |-> "d"]

(***************************************************************************)
(* Claims about the snapshot of the queues                                 *)
(***************************************************************************)
\* the sum of one count over the queue records idxs
RECURSIVE SumOfCounts(_, _, _)
SumOfCounts(queues, idxs, f) ==
    IF idxs = {} THEN 0
    ELSE LET i == CHOOSE j \in idxs : TRUE
         IN queues[i].counts[f] + SumOfCounts(queues, idxs \ {i}, f)

\* C13: getQueueStatus returns one record for each monitored directory,
\* totals.xml and totals.pdf are the sums of counts.xml and counts.pdf over
\* the records, and each record has counts.total = counts.xml + counts.pdf,
\* whichever directories are missing or unreadable.
C13_TotalsAreSums ==
    queueResp.pc = "done" =>
        LET queues == queueResp.result.queues
            totals == queueResp.result.totals
        IN /\ DOMAIN queues = QueueIdx
           /\ totals.xml = SumOfCounts(queues, DOMAIN queues, "xml")
           /\ totals.pdf = SumOfCounts(queues, DOMAIN queues, "pdf")
           /\ \A i \in DOMAIN queues :
                 queues[i].counts.total = queues[i].counts.xml + queues[i].counts.pdf

\* one directory unreadable, the two others holding different numbers of files
C13_Witness ==
    /\ queueResp.pc = "done"
    /\ ~queueResp.dirs[2].readable
    /\ queueResp.dirs[1] = Listing(1, 2)
    /\ queueResp.dirs[3] = Listing(3, 4)
    /\ queueResp.result.totals = [xml |-> 4, pdf |-> 6]

\* C12: the JSON rendering and the fragment rendering of one snapshot agree:
\* the fragment shows, for every queue, the tier and the counts of the JSON
\* body, and its total number of queue files is the one the JSON body carries.
C12_RenderingsAgree ==
    statusResp.pc = "done" =>
        LET json == StatusHandler([statusResp.in EXCEPT !.hx = FALSE])
            html == StatusHandler([statusResp.in EXCEPT !.hx = TRUE])
        IN (json.code = 200 /\ html.code = 200) =>
              /\ DOMAIN html.body.queues = DOMAIN json.body.queues
              /\ \A i \in DOMAIN json.body.queues :
                    /\ html.body.queues[i].status = json.body.queues[i].status
                    /\ html.body.queues[i].total = json.body.queues[i].counts.total
                    /\ html.body.queues[i].xml = json.body.queues[i].counts.xml
                    /\ html.body.queues[i].pdf = json.body.queues[i].counts.pdf
              /\ json.body.totalQueueFiles # "undefined"
              /\ html.body.totalFiles = json.body.totalQueueFiles

\* C19: a GET /status or GET /server-stats request made in fragment mode that
\* fails is answered with an HTML error block, not with a JSON body.
C19_FragmentErrorIsHtml ==
    /\ (statusResp.pc = "done" /\ statusResp.in.hx /\ statusResp.out.code >= 400)
          => statusResp.out.kind = "html"
    /\ (httpResp.route = "server-stats" /\ httpResp.in.hx /\ httpResp.out.code >= 400)
          => httpResp.out.kind = "html"

(***************************************************************************)
(* Claims about the requests to the gateway                                *)
(***************************************************************************)
\* a required input is missing: absent, or the empty string
Missing(param) == ~param.present \/ param.value = <<>>

\* what C16 asks of the last exchanges
BadRequestAnswered ==
    /\ (httpResp.route = "execute" /\ Missing(httpResp.in))
          => (httpResp.out.code = 400 /\ ~httpResp.out.executed)
    /\ (httpResp.route = "file-content" /\ Missing(httpResp.in))
          => (httpResp.out.code = 400 /\ ~httpResp.out.read)
    /\ (editResp.impl = "router" /\ (Missing(editResp.filePath) \/ ~editResp.content.present))
          => (editResp.status = 400 /\ ~editResp.wrote)
    /\ (editResp.impl = "router" /\ ~Missing(editResp.filePath) /\ editResp.content = Param(<<>>))
          => (editResp.status # 400)

\* C16: a request that lacks a required input is answered 400 before any side
\* effect: POST /execute with a missing or empty command executes nothing,
\* POST /edit-file with a missing filePath or an undefined content writes
\* nothing, GET /file-content with no file parameter reads nothing; an empty
\* content with a valid filePath is not treated as missing.
C16_MissingInputIs400 ==
    /\ []BadRequestAnswered
    /\ [][(editResp'.status = 400) => (fsFiles' = fsFiles)]_vars

\* an empty content was written to x.txt, then a POST /edit-file without
\* content and a POST /execute with an empty command were answered 400
C16_Witness ==
    /\ httpResp.route = "execute" /\ httpResp.in = Param(<<>>) /\ httpResp.out.code = 400
    /\ editResp.status = 400 /\ ~editResp.content.present /\ editResp.filePath = Param(Path_x)
    /\ PathJoin(EDITABLE_DIR, Path_x) \in DOMAIN fsFiles
    /\ fsFiles[PathJoin(EDITABLE_DIR, Path_x)] = <<>>

\* a GET /file-content is answered for the path of the last POST /edit-file,
\* which succeeded inside the editable root; nothing wrote in between
ReadsLastWrite ==
    /\ editResp' = editResp
    /\ fsFiles' = fsFiles
    /\ httpResp'.route = "file-content"
    /\ httpResp'.in.present
    /\ editResp.impl = "router"
    /\ editResp.status = 200
    /\ ContainedInRoot(editResp.fullPath)
    /\ PathJoin(EDITABLE_DIR, httpResp'.in.value) = editResp.fullPath

\* no surrogate stands on its own in the string
RECURSIVE WellFormed(_)
WellFormed(str) ==
    IF str = <<>> THEN TRUE
    ELSE IF str[1] = HighSurrogate
    THEN Len(str) >= 2 /\ str[2] = LowSurrogate /\ WellFormed(SubSeq(str, 3, Len(str)))
    ELSE str[1] # LowSurrogate /\ WellFormed(Tail(str))

\* C17 as stated: after a POST /edit-file of content c to a path inside the
\* root returned 200, a GET /file-content for that path, with no write in
\* between, returns 200 with content exactly c.
C17_RoundTripAnyContent ==
    [][ReadsLastWrite =>
          /\ httpResp'.out.code = 200
          /\ httpResp'.out.content = editResp.content.value]_vars

\* C17 amended: the round trip returns exactly c when c is well-formed
\* UTF-16, that is when no surrogate stands on its own in c.
C17_RoundTripWellFormed ==
    [][(ReadsLastWrite /\ WellFormed(editResp.content.value)) =>
          /\ httpResp'.out.code = 200
          /\ httpResp'.out.content = editResp.content.value]_vars

\* U+1F600 was written to s/../x.txt and read back from x.txt
C17_Witness ==
    /\ editResp.impl = "router"
    /\ editResp.status = 200
    /\ editResp.filePath = Param(Path_inside)
    /\ editResp.content = Param(<<HighSurrogate, LowSurrogate>>)
    /\ httpResp.route = "file-content"
    /\ httpResp.in = Param(Path_x)
    /\ httpResp.out.code = 200
    /\ httpResp.out.content = <<HighSurrogate, LowSurrogate>>
    /\ fsFiles[editResp.fullPath] = <<"F0", "9F", "98", "80">>

\* every POST /edit-file request was answered
AllAnswered == \A w \in Writers : writers[w].pc = "done"

\* C18: last write wins: no POST /edit-file is rejected because another one
\* is in progress, and a read made after all the writes to the path completed
\* returns the content of the write that completed last.
C18_LastWriteWins ==
    /\ [](\A w \in Writers : writers[w].pc = "done" => writers[w].status = 200)
    /\ [][(AllAnswered /\ writers' = writers /\ httpResp'.route = "file-content") =>
             /\ httpResp'.out.code = 200
             /\ httpResp'.out.content = writers[order[Len(order)]].content]_vars

(***************************************************************************)
(* Claims about the server built by createZupportApi                       *)
(***************************************************************************)
\* the names of a listing that end in .log
LogNames(files) == {files[i] : i \in {j \in DOMAIN files : endsWith(files[j], Ext_log)}}

\* the elements of a sequence
Range(s) == {s[i] : i \in DOMAIN s}

\* C20: a request without Accept header to GET /logs, GET /health,
\* POST /execute (with a command that runs) or GET /editable-files (the
\* directories being readable) is answered 200 with a JSON body: logs holding
\* every .log file of the log directory, uptime and cpuUsage, stdout equal to
\* the output of the command, and files.
C20_NoAcceptGetsJson ==
    /\ (httpResp.route = "api/logs" /\ ~httpResp.in.accept.present /\ httpResp.in.dir.ok)
          => /\ httpResp.out.code = 200
             /\ httpResp.out.kind = "json"
             /\ LogNames(httpResp.in.dir.files) \subseteq Range(httpResp.out.body.logs)
    /\ (httpResp.route = "api/health" /\ ~httpResp.in.accept.present)
          => /\ httpResp.out.code = 200
             /\ httpResp.out.kind = "json"
             /\ {"uptime", "cpuUsage"} \subseteq DOMAIN httpResp.out.body
    /\ (httpResp.route = "api/execute" /\ ~httpResp.in.accept.present
            /\ ~Missing(httpResp.in.command) /\ ~httpResp.in.result.error)
          => /\ httpResp.out.code = 200
             /\ httpResp.out.kind = "json"
             /\ httpResp.out.body.stdout = httpResp.in.result.stdout
    /\ (httpResp.route = "api/editable-files" /\ ~httpResp.in.accept.present
            /\ httpResp.in.dir.ok)
          => /\ httpResp.out.code = 200
             /\ httpResp.out.kind = "json"
             /\ httpResp.out.body.files = httpResp.in.dir.files

(***************************************************************************)
(* Claims about the log generator                                          *)
(***************************************************************************)
\* a step of the handler of POST /logs/generate: no callback moved
GenerateStep ==
    /\ gen'.nextPending = gen.nextPending
    /\ gen'.appendPending = gen.appendPending
    /\ gen'.appended = gen.appended

\* C26: at most one log-generator timer is active at any time: start answers
\* started and creates a timer only when none is active, stop answers stopped
\* and clears the timer only when one is active, and every other request
\* answers no change and leaves the generator as it is.
C26_AtMostOneTimer ==
    /\ [](/\ Cardinality(gen.timers) <= 1
           /\ gen.timers = IF gen.logGenerator = 0 THEN {} ELSE {gen.logGenerator})
    /\ [][GenerateStep =>
             IF gen'.last.action = "start" /\ gen.timers = {}
             THEN gen'.last.status = "started" /\ Cardinality(gen'.timers) = 1
             ELSE IF gen'.last.action = "stop" /\ gen.timers # {}
             THEN gen'.last.status = "stopped" /\ gen'.timers = {}
             ELSE /\ gen'.last.status = "no change"
                  /\ gen'.timers = gen.timers
                  /\ gen'.logGenerator = gen.logGenerator]_vars

\* a start was refused while the second timer of the run was active
C26_Witness ==
    /\ gen.created = 2
    /\ gen.timers = {2}
    /\ gen.last = [action |-> "start", status |-> "no change"]

\* C27: after a stop was answered stopped, no line is appended to
\* not-catalina.out until a later start, whatever callbacks are pending.
C27_NoAppendAfterStop ==
    [][gen'.appended # gen.appended => gen.logGenerator # 0]_vars

StreamedLines(sent) ==
    LET lineMessages == SelectSeq(sent, LAMBDA m : m.kind = "line")
    IN [i \in 1..Len(lineMessages) |-> lineMessages[i].message]

\* C30: the streamer sends a message for a log file only for a newly appended
\* line: whenever it sends one, the lines reported so far are exactly the
\* lines appended so far, each once and in order.
C30_OnlyNewLinesOnce ==
    [][StreamedLines(stream'.sent) # StreamedLines(stream.sent) =>
         StreamedLines(stream'.sent) = [k \in 1..stream.file |-> k]]_vars

(***************************************************************************)
(* Claims about the services and the queue records of a snapshot           *)
(***************************************************************************)
\* C24: for each configured service, getServiceStatus reports status active
\* if and only if systemctl reports the service active and all of its
\* introspection commands succeed.
C24_ActiveIffRunning ==
    (statusResp.pc = "done" /\ ~statusResp.in.hx /\ statusResp.out.code = 200
        /\ statusResp.in.psOk) =>
        \A i \in DOMAIN ServiceNames :
            (statusResp.out.body.services[i].status = "active")
                <=> (statusResp.in.svcs[i].active /\ statusResp.in.svcs[i].cmdsOk)

\* C25: every element of the services list of a snapshot is a record with a
\* name and a status for every outcome of the Sprkz probe, and the fragment
\* rendering does not fault on a snapshot the JSON rendering returns.
C25_NoNullService ==
    statusResp.pc = "done" =>
        LET json == StatusHandler([statusResp.in EXCEPT !.hx = FALSE])
            html == StatusHandler([statusResp.in EXCEPT !.hx = TRUE])
        IN json.code = 200 =>
              /\ \A i \in DOMAIN json.body.services : ~json.body.services[i].isNull
              /\ html.code = 200

\* C29: a monitored directory that is missing or unreadable is reported with
\* exists false, status unknown and zero counts.
C29_UnreadableIsUnknown ==
    queueResp.pc = "done" =>
        \A i \in QueueIdx :
            ~queueResp.dirs[i].readable =>
                /\ queueResp.result.queues[i].exists = FALSE
                /\ queueResp.result.queues[i].status = "unknown"
                /\ queueResp.result.queues[i].counts = [xml |-> 0, pdf |-> 0, total |-> 0]

(***************************************************************************)
(* Claims about the containment check of createZupportApi                  *)
(***************************************************************************)
\* C23: a POST /edit-file of createZupportApi that carries filePath and
\* content is answered 403 if and only if the joined path lies outside the
\* editable root as a path; a sibling directory whose name extends the name
\* of the root is outside, and a target inside the root is never denied.
C23_DeniedIffOutside ==
    (editResp.impl = "api" /\ editResp.status # 0 /\ editResp.status # 400) =>
        ((editResp.status = 403) <=> ~ContainedInRoot(editResp.fullPath))

(***************************************************************************)
(* Claims about the reported version                                       *)
(***************************************************************************)
\* C21: GET /version answers 200 with a defined version equal to the package
\* version generateVersion wrote into the version module the server loaded,
\* in the JSON rendering and in the fragment rendering.
C21_ReportsPackageVersion ==
    (httpResp.route = "version"
        /\ httpResp.in.module.version = generateVersion(httpResp.in.packageVersion).version) =>
        /\ httpResp.out.code = 200
        /\ httpResp.out.hasVersion
        /\ httpResp.out.version = httpResp.in.packageVersion

(***************************************************************************)
(* Claims about the level field of the tail messages                       *)
(***************************************************************************)
\* C22: every message of a tail session carries the active level filter of
\* the session in its level field, and carries ALL if and only if the
\* session has no active filter, whatever the level parameter was.
C22_AllMeansNoFilter ==
    \A s \in Sessions : \A i \in DOMAIN sess[s].sent :
        /\ (sess[s].sent[i].level = ALL) <=> NoLevel(sess[s].logLevel)
        /\ ~NoLevel(sess[s].logLevel) => sess[s].sent[i].level = sess[s].logLevel.value

====
